---- MODULE Spec2Model ----
(***************************************************************************)
(* Peer discovery (NativeP2PDiscovery, electron/native-p2p.ts) and the     *)
(* request router (DistributedInferenceService, electron/distributed-     *)
(* service.ts) of latentra.                                                *)
(*                                                                         *)
(* JavaScript Maps are sequences of [key, val] entries in insertion order. *)
(* Strings that the code splits or parses are sequences of atoms, the      *)
(* atom "=" being the separator character of a TXT item.                   *)
(* Time is Date.now() in milliseconds.                                     *)
(***************************************************************************)
EXTENDS Integers, Sequences, FiniteSets, TLC

VARIABLES
    \* ---- DistributedInferenceService ----
    config,             \* this.config (mode, enableP2P, userProfile.displayName)
    svc,                \* what the service started: discovery instances running,
                        \* heartbeat timers live, the deviceName this.nativeP2P holds
    svcPeers,           \* this.peers : Map<string, PeerDevice>
    localAIAvailable,   \* this.localAIAvailable
    manuallyStopped,    \* this.manuallyStopped
    currentRequest,     \* this.currentRequest
    chatLock,           \* llmService.chatLock: the callers chained on it, the running one first
    metricsHistory,     \* this.metricsHistory
    recorded,           \* every sample pushed so far, in order (history of the run)
    calls,              \* the pending chat() calls, one record per caller
    nreq,               \* number of chat() calls issued so far
    \* ---- NativeP2PDiscovery, one instance per node ----
    isRunning,          \* this.isRunning
    mdns,               \* this.mdns (TRUE: socket open, FALSE: null)
    peers,              \* this.peers : Map<string, Peer>
    announceInterval,   \* this.announceInterval (due time, or Off)
    queryInterval,      \* this.queryInterval
    cleanupInterval,    \* this.cleanupInterval
    live,               \* live[n]: sockets open, listeners registered and interval
                        \* timers scheduled by the instance and not yet released
    \* ---- environment ----
    now,                \* Date.now()
    net,                \* multicast packets in flight
    lostLast,           \* lostLast[n]: the last periodic announcement sent to n was lost
    evicted,            \* ghost: the ids each instance's sweep has removed so far
    lost,               \* whether any packet was lost so far
    emitted,            \* events emitted by the last step
    last                \* the last operation that ran

svcVars  == <<config, svc, svcPeers, localAIAvailable, manuallyStopped,
              currentRequest, chatLock, metricsHistory, recorded, calls, nreq>>
discVars == <<isRunning, mdns, peers, announceInterval, queryInterval,
              cleanupInterval, live, net, lostLast, lost, evicted>>
vars     == <<svcVars, discVars, now, emitted, last>>

\* --------------------------------------------------------------------------
\* Bounds of the model
\* --------------------------------------------------------------------------
MaxRequests == 2        \* chat() calls issued in one behaviour
MaxCallers  == 2        \* callers that may have a chat() call pending
MaxTime     == 60000    \* the clock stops here (ms)
MaxStartTime == 5000    \* start() is called no later than this (ms)
PrefillSlack == 2       \* how far below its capacity a filled metricsHistory starts
MaxMalformedTime == 15000  \* packets out of shape arrive no later than this (ms)
MaxInstances == 2       \* discovery instances and heartbeat timers the service starts

\* --------------------------------------------------------------------------
\* JavaScript Map, in insertion order
\* --------------------------------------------------------------------------
MapHas(m, k)    == \E i \in 1..Len(m) : m[i].key = k
MapIndex(m, k)  == CHOOSE i \in 1..Len(m) : m[i].key = k
MapGet(m, k)    == m[MapIndex(m, k)].val
MapSet(m, k, v) ==
    IF MapHas(m, k) THEN [m EXCEPT ![MapIndex(m, k)] = [key |-> k, val |-> v]]
    ELSE Append(m, [key |-> k, val |-> v])
MapDelete(m, k) == SelectSeq(m, LAMBDA e : e.key # k)
MapKeys(m)      == [i \in 1..Len(m) |-> m[i].key]
MapValues(m)    == [i \in 1..Len(m) |-> m[i].val]
MapSize(m)      == Len(m)
Range(s)        == {s[i] : i \in 1..Len(s)}

Undefined == [kind |-> "undefined"]


\* --------------------------------------------------------------------------
\* DistributedInferenceService: the request router
\* --------------------------------------------------------------------------
Callers   == 1..MaxCallers
Modes     == {"local", "distributed", "hybrid"}
\* Each caller sends a prompt of its own.
Prompts   == <<"hello", "bye", "again", "more">>
MessageOf(c) == Prompts[((c - 1) % Len(Prompts)) + 1]

\* What the POST to /v1/chat/completions can come back with: a rejected
\* fetch, a non-2xx status, or a 2xx status with one of these bodies.
FetchRejects == {"neterr", "timeout"}
FetchNotOk   == {"http500"}
Bodies       == {"badjson",       \* response.json() throws
                 "null",          \* JSON null: reading data.usage throws
                 "nochoices",     \* {}, {choices: []}, {choices: [{}]}:
                                  \* reading choices[0].message.content throws
                 "nocontent",     \* {choices: [{message: {}}]}
                 "ok"}            \* {choices: [{message: {content}}], usage}
FetchResults == FetchRejects \cup FetchNotOk \cup Bodies
\* usage?.total_tokens || 0
Usages       == {0, 5}
\* What GET /metrics can come back with.
MetricsResults == {"reject", "notok", "badjson", "ok"}
\* What llmService.chat settles with.
LocalOutcomes == {[kind |-> "text",  val |-> "local reply"],
                  [kind |-> "error", val |-> "engine error"]}
NoOutcome == [kind |-> "none", val |-> ""]

IdleCall == [pc |-> "idle", message |-> "", route |-> "none", requestId |-> 0,
             localMessages |-> <<>>, httpCalls |-> 0, data |-> "", usage |-> 0,
             distFailed |-> FALSE, localOutcome |-> NoOutcome, outcome |-> NoOutcome]

\* getOptimalMode(); first a variant whose hybrid branch forgets the peer count
getOptimalModeNoPeerCheck ==
    IF config.mode = "local" THEN "local"
    ELSE IF config.mode = "distributed" THEN "distributed"
    ELSE IF localAIAvailable THEN "distributed" ELSE "local"
getOptimalMode ==
    IF config.mode = "local" THEN "local"
    ELSE IF config.mode = "distributed" THEN "distributed"
    ELSE IF localAIAvailable /\ MapSize(svcPeers) > 0 THEN "distributed"
    ELSE "local"

\* The switch of chat(): which of localChat / distributedChat is entered.
chatSwitch(mode) ==
    CASE mode = "local"       -> "localChat"
      [] mode = "distributed" -> "distributedChat"
      [] mode = "hybrid"      ->
            IF localAIAvailable /\ MapSize(svcPeers) > 0 THEN "distributedChat"
            ELSE "localChat"
      [] OTHER                -> "localChat"

\* localChat(message): llmService.chat(message) is invoked and pending.
localChat(call, message) ==
    [call EXCEPT !.pc = "local",
                 !.localMessages = Append(call.localMessages, message)]

\* llmService.chat(message): run is chained onto chatLock; it runs (prompts
\* the engine) once every run chained before it has settled.
Chained(lock, c, call) == IF call.pc = "local" THEN Append(lock, c) ELSE lock
Running(lock, c) == Len(lock) > 0 /\ lock[1] = c
\* this.chatLock = resultPromise.then(() => {}).catch(() => {}): the lock is
\* fulfilled however the run settles, and the next run chained on it starts.
\* First a variant without the catch: a run that rejects rejects the lock,
\* and with it every run chained behind.
SettleWithoutCatch(lock, r) ==
    IF r.kind = "error"
    THEN [lock |-> <<>>, rejected |-> Range(Tail(lock))]
    ELSE [lock |-> Tail(lock), rejected |-> {}]
Settle(lock, r) == [lock |-> Tail(lock), rejected |-> {}]

\* catch block of distributedChat: this.currentRequest = undefined, then
\* localChat(message). First a variant that forgets to clear the request.
distributedCatchKeepsRequest(call) ==
    [call    |-> localChat([call EXCEPT !.distFailed = TRUE], call.message),
     request |-> currentRequest]
distributedCatch(call) ==
    [call    |-> localChat([call EXCEPT !.distFailed = TRUE], call.message),
     request |-> Undefined]

\* Reading data.choices[0].message.content
ContentThrows(body) == body = "nochoices"
Content(body) ==
    IF body = "ok" THEN [kind |-> "text", val |-> "distributed reply"]
    ELSE [kind |-> "undefined", val |-> ""]

\* distributedChat(message) up to the fetch: the availability check, then the
\* request record and the POST. First a variant without the check.
distributedChatUnchecked(call) ==
    [call    |-> [call EXCEPT !.pc = "fetch", !.route = "distributed",
                              !.requestId = now,
                              !.httpCalls = call.httpCalls + 1],
     request |-> [kind |-> "request", id |-> now,
                  peersInvolved |-> MapKeys(svcPeers)]]
distributedChat(call) ==
    IF ~localAIAvailable
    THEN [call    |-> [call EXCEPT !.pc = "done", !.route = "error",
                                   !.outcome = [kind |-> "error",
                                                val |-> "LocalAI not available"]],
          request |-> currentRequest]
    ELSE [call    |-> [call EXCEPT !.pc = "fetch", !.route = "distributed",
                                   !.requestId = now,
                                   !.httpCalls = call.httpCalls + 1],
          request |-> [kind |-> "request", id |-> now,
                       peersInvolved |-> MapKeys(svcPeers)]]

\* chat(message), up to its first await
Chat(c, message) ==
    /\ calls[c].pc = "idle"
    /\ nreq < MaxRequests
    /\ nreq' = nreq + 1
    /\ LET mode == getOptimalMode
           call == [IdleCall EXCEPT !.message = message]
           next == IF chatSwitch(mode) = "localChat"
                   THEN [call    |-> localChat([call EXCEPT !.route = "local"], message),
                         request |-> currentRequest]
                   ELSE distributedChat(call)
       IN  /\ calls' = [calls EXCEPT ![c] = next.call]
           /\ currentRequest' = next.request
           /\ chatLock' = Chained(chatLock, c, next.call)
    /\ last' = [op |-> "chat", caller |-> c,
                in |-> [mode |-> config.mode, avail |-> localAIAvailable,
                        npeers |-> MapSize(svcPeers)],
                pre |-> [currentRequest |-> currentRequest,
                         metricsHistory |-> metricsHistory]]
    /\ emitted' = <<>>
    /\ UNCHANGED <<config, svcPeers, localAIAvailable, manuallyStopped,
                   metricsHistory, discVars, svc, recorded, now>>

\* distributedChat: the chat-completions fetch settles; up to the next await
FetchReturns(c, res, usage) ==
    /\ calls[c].pc = "fetch"
    /\ IF res \in FetchRejects \cup FetchNotOk \cup {"badjson", "null"}
       THEN /\ currentRequest' = distributedCatch(calls[c]).request
            /\ calls' = [calls EXCEPT ![c] = distributedCatch(calls[c]).call]
            /\ chatLock' = Chained(chatLock, c, distributedCatch(calls[c]).call)
       ELSE \* collectMetrics(requestId, latency, data.usage) issues GET /metrics
            /\ calls' = [calls EXCEPT ![c] =
                    [calls[c] EXCEPT !.pc = "metrics", !.data = res, !.usage = usage]]
            /\ UNCHANGED <<currentRequest, chatLock>>
    /\ last' = [op |-> "fetchReturns", caller |-> c, res |-> res]
    /\ emitted' = <<>>
    /\ UNCHANGED <<config, svcPeers, localAIAvailable, manuallyStopped,
                   metricsHistory, nreq, discVars, svc, recorded, now>>

\* collectMetrics, after the /metrics fetch settled: one sample per entry of
\* this.peers, then the trim to maxMetricsHistory.
maxMetricsHistory == 100
Sample(peerId, usage) == [peerId |-> peerId, tokensProcessed |-> usage]
LastN(s, n) == IF Len(s) <= n THEN s ELSE SubSeq(s, Len(s) - n + 1, Len(s))
\* The samples one collectMetrics call pushes: none unless /metrics answers
\* 2xx with a JSON body
Pushed(mres, usage) ==
    IF mres = "ok"
    THEN [i \in 1..MapSize(svcPeers) |-> Sample(svcPeers[i].key, usage)]
    ELSE <<>>
\* First a variant that trims with slice(0, max): it keeps the oldest samples.
collectMetricsKeepsOldest(history, mres, usage) ==
    IF mres = "ok"
    THEN LET pushed == history \o Pushed(mres, usage)
         IN  IF Len(pushed) > maxMetricsHistory
             THEN SubSeq(pushed, 1, maxMetricsHistory) ELSE pushed
    ELSE history
collectMetrics(history, mres, usage) ==
    IF mres = "ok"
    THEN LET pushed == history \o Pushed(mres, usage)
         IN  IF Len(pushed) > maxMetricsHistory
             THEN LastN(pushed, maxMetricsHistory) ELSE pushed
    ELSE history

\* distributedChat: the /metrics fetch settles; up to return or the fallback
MetricsReturns(c, mres) ==
    /\ calls[c].pc = "metrics"
    /\ metricsHistory' = collectMetrics(metricsHistory, mres, calls[c].usage)
    /\ recorded' = recorded \o Pushed(mres, calls[c].usage)
    /\ IF ContentThrows(calls[c].data)
       THEN /\ currentRequest' = distributedCatch(calls[c]).request
            /\ calls' = [calls EXCEPT ![c] = distributedCatch(calls[c]).call]
            /\ chatLock' = Chained(chatLock, c, distributedCatch(calls[c]).call)
       ELSE /\ currentRequest' = Undefined
            /\ calls' = [calls EXCEPT ![c] =
                    [calls[c] EXCEPT !.pc = "done", !.outcome = Content(calls[c].data)]]
            /\ UNCHANGED chatLock
    /\ last' = [op |-> "metricsReturns", caller |-> c, data |-> calls[c].data]
    /\ emitted' = <<>>
    /\ UNCHANGED <<config, svcPeers, localAIAvailable, manuallyStopped,
                   nreq, discVars, svc, now>>

\* llmService.chat settles and localChat hands its outcome on: the run at the
\* head of chatLock ends and the next one chained on it may start
LocalReturns(c, r) ==
    /\ calls[c].pc = "local"
    /\ Running(chatLock, c)
    /\ chatLock' = Settle(chatLock, r).lock
    /\ calls' = [d \in Callers |->
            IF d = c \/ d \in Settle(chatLock, r).rejected
            THEN [calls[d] EXCEPT !.pc = "done", !.localOutcome = r, !.outcome = r]
            ELSE calls[d]]
    /\ last' = [op |-> "localReturns"]
    /\ emitted' = <<>>
    /\ UNCHANGED <<config, svcPeers, localAIAvailable, manuallyStopped,
                   currentRequest, metricsHistory, nreq, discVars, svc, recorded, now>>

\* the caller of chat() takes the settled promise
Return(c) ==
    /\ calls[c].pc = "done"
    /\ calls' = [calls EXCEPT ![c] = IdleCall]
    /\ last' = [op |-> "return"]
    /\ emitted' = <<>>
    /\ UNCHANGED <<config, svcPeers, localAIAvailable, manuallyStopped,
                   currentRequest, chatLock, metricsHistory, nreq, discVars, svc, recorded, now>>

\* The listeners startNativeP2PDiscovery registers on the discovery instance.
PeerDevice(peer) ==
    [id |-> peer.id, name |-> peer.name, address |-> peer.address,
     port |-> peer.port, status |-> "connected", specs |-> peer.specs,
     lastSeen |-> now, contribution |-> 0]
onPeerDiscovered(m, peer) == MapSet(m, peer.id, PeerDevice(peer))
onPeerLost(m, peer)       == MapDelete(m, peer.id)

\* The peers the router is told about when it is studied on its own.
RouterPeerIds == {<<"a1">>, <<"c1">>}
RouterPeer(id) ==
    [id |-> id, name |-> <<"Ann">>, address |-> "10.0.0.1", port |-> 8080,
     userAgent |-> "linux/x64", lastSeen |-> now,
     specs |-> [cpu |-> <<"X">>, memory |-> 16, vram |-> 6,
                platform |-> "linux", arch |-> "x64"]]

PeerDiscoveredEvent(id) ==
    /\ svcPeers' = onPeerDiscovered(svcPeers, RouterPeer(id))
    /\ last' = [op |-> "env"]
    /\ emitted' = <<>>
    /\ UNCHANGED <<config, localAIAvailable, manuallyStopped, currentRequest, chatLock,
                   metricsHistory, calls, nreq, discVars, svc, recorded, now>>

PeerLostEvent(id) ==
    /\ MapHas(svcPeers, id)
    /\ svcPeers' = onPeerLost(svcPeers, RouterPeer(id))
    /\ last' = [op |-> "env"]
    /\ emitted' = <<>>
    /\ UNCHANGED <<config, localAIAvailable, manuallyStopped, currentRequest, chatLock,
                   metricsHistory, calls, nreq, discVars, svc, recorded, now>>

\* updateConfig({mode})
UpdateConfigMode(m) ==
    /\ config' = [config EXCEPT !.mode = m]
    /\ last' = [op |-> "env"]
    /\ emitted' = <<>>
    /\ UNCHANGED <<svcPeers, localAIAvailable, manuallyStopped, currentRequest, chatLock,
                   metricsHistory, calls, nreq, discVars, svc, recorded, now>>

\* testLocalAI(): res is "ok", "notok" (non-2xx) or "throws"
TestLocalAI(res) ==
    /\ localAIAvailable' = CASE res = "ok"     -> TRUE
                             [] res = "throws" -> FALSE
                             [] OTHER          -> localAIAvailable
    /\ last' = [op |-> "env"]
    /\ emitted' = <<>>
    /\ UNCHANGED <<config, svcPeers, manuallyStopped, currentRequest, chatLock,
                   metricsHistory, calls, nreq, discVars, svc, recorded, now>>

\* startLocalAI(): ok is whether localAIManager.start() resolved
StartLocalAI(ok) ==
    /\ manuallyStopped' = FALSE
    /\ localAIAvailable' = IF ok THEN TRUE ELSE localAIAvailable
    /\ last' = [op |-> "env"]
    /\ emitted' = <<>>
    /\ UNCHANGED <<config, svcPeers, currentRequest, chatLock, metricsHistory, calls,
                   nreq, discVars, svc, recorded, now>>

\* stopLocalAI(): ok is whether localAIManager.stop() resolved
StopLocalAI(ok) ==
    /\ manuallyStopped' = TRUE
    /\ localAIAvailable' = IF ok THEN FALSE ELSE localAIAvailable
    /\ last' = [op |-> "env"]
    /\ emitted' = <<>>
    /\ UNCHANGED <<config, svcPeers, currentRequest, chatLock, metricsHistory, calls,
                   nreq, discVars, svc, recorded, now>>

\* getComputeDistribution(). A percentage is the exact fraction num / den;
\* avgLatency is left out, samples carrying no latency here.
RECURSIVE GroupByPeer(_, _)
GroupByPeer(history, peerMetrics) ==
    IF Len(history) = 0 THEN peerMetrics
    ELSE LET metric == history[1]
             pm     == IF MapHas(peerMetrics, metric.peerId)
                       THEN MapGet(peerMetrics, metric.peerId) ELSE 0
         IN  GroupByPeer(Tail(history),
                         MapSet(peerMetrics, metric.peerId, pm + metric.tokensProcessed))
RECURSIVE SumTokens(_)
SumTokens(entries) ==
    IF Len(entries) = 0 THEN 0 ELSE entries[1].val + SumTokens(Tail(entries))
\* b.percentage - a.percentage, the comparator of the sort, and its reverse
Zero == [num |-> 0, den |-> 1]
Compare(a, b) == b.percentage.num * a.percentage.den - a.percentage.num * b.percentage.den
CompareAscending(a, b) == 0 - Compare(a, b)
\* Array.prototype.sort (stable): x goes after the entries it does not precede
InsertBy(sorted, x, descending) ==
    LET Cmp(a, b) == IF descending THEN Compare(a, b) ELSE CompareAscending(a, b)
        before == {i \in 0..Len(sorted) : \A j \in (i + 1)..Len(sorted) : Cmp(x, sorted[j]) < 0}
        at     == CHOOSE i \in before : \A k \in before : i <= k
    IN  SubSeq(sorted, 1, at) \o <<x>> \o SubSeq(sorted, at + 1, Len(sorted))
RECURSIVE SortBy(_, _)
SortBy(seq, descending) ==
    IF Len(seq) = 0 THEN <<>>
    ELSE InsertBy(SortBy(SubSeq(seq, 1, Len(seq) - 1), descending), seq[Len(seq)], descending)
Distribution(peerMetrics, totalTokens) ==
    [i \in 1..Len(peerMetrics) |->
        [peerId          |-> peerMetrics[i].key,
         peerName        |-> IF MapHas(svcPeers, peerMetrics[i].key)
                             THEN MapGet(svcPeers, peerMetrics[i].key).name
                             ELSE peerMetrics[i].key,
         percentage      |-> IF totalTokens > 0
                             THEN [num |-> peerMetrics[i].val * 100, den |-> totalTokens]
                             ELSE Zero,
         tokensProcessed |-> peerMetrics[i].val]]
\* First a variant that sorts by a.percentage - b.percentage.
getComputeDistributionAscending ==
    IF Len(metricsHistory) = 0 THEN [totalCompute |-> 0, distribution |-> <<>>]
    ELSE LET peerMetrics == GroupByPeer(metricsHistory, <<>>)
             totalTokens == SumTokens(peerMetrics)
         IN  [totalCompute |-> totalTokens,
              distribution |-> SortBy(Distribution(peerMetrics, totalTokens), FALSE)]
getComputeDistribution ==
    IF Len(metricsHistory) = 0 THEN [totalCompute |-> 0, distribution |-> <<>>]
    ELSE LET peerMetrics == GroupByPeer(metricsHistory, <<>>)
             totalTokens == SumTokens(peerMetrics)
         IN  [totalCompute |-> totalTokens,
              distribution |-> SortBy(Distribution(peerMetrics, totalTokens), TRUE)]

\* initialize(): the backend's availability after the status check, the
\* auto-start and the probe (lines 105-127)
InitializeAvail(running, startOk, probe) ==
    IF running THEN TRUE
    ELSE IF config.enableP2P /\ ~manuallyStopped
         THEN (IF startOk THEN TRUE ELSE probe)
         ELSE probe

\* initialize() without a config argument, as updateConfig calls it. cfg is
\* this.config when it runs.
initialize(cfg, running, startOk, probe) ==
    LET avail == InitializeAvail(running, startOk, probe)
    IN  /\ localAIAvailable' = avail
        /\ svc' = IF cfg.enableP2P
                  THEN [discoveries |-> svc.discoveries + 1,           \* startNativeP2PDiscovery()
                        nativeP2P   |-> TRUE,
                        heartbeats  |-> IF avail THEN svc.heartbeats + 1   \* startPeerDiscovery()
                                        ELSE svc.heartbeats,
                        heartbeatInterval |-> IF avail THEN "set" ELSE svc.heartbeatInterval,
                        deviceName  |-> cfg.displayName]
                  ELSE svc

Initialize(running, startOk, probe) ==
    /\ svc.discoveries < MaxInstances /\ svc.heartbeats < MaxInstances
    /\ initialize(config, running, startOk, probe)
    /\ last' = [op |-> "env"]
    /\ emitted' = <<>>
    /\ UNCHANGED <<config, svcPeers, manuallyStopped, currentRequest, chatLock,
                   metricsHistory, calls, nreq, discVars, recorded, now>>

\* updateConfig({enableP2P})
UpdateConfigP2P(enable, running, startOk, probe) ==
    /\ svc.discoveries < MaxInstances /\ svc.heartbeats < MaxInstances
    /\ config' = [config EXCEPT !.enableP2P = enable]
    /\ initialize(config', running, startOk, probe)
    /\ last' = [op |-> "updateConfig"]
    /\ emitted' = <<>>
    /\ UNCHANGED <<svcPeers, manuallyStopped, currentRequest, chatLock,
                   metricsHistory, calls, nreq, discVars, recorded, now>>

\* dispose(): clearInterval on the heartbeat handle the service holds, stop()
\* on the discovery instance it holds, then the maps are emptied. The handle
\* is "set" while its timer runs and "cleared" after clearInterval.
Dispose ==
    /\ svc' = [svc EXCEPT
            !.heartbeats = IF svc.heartbeatInterval = "set" THEN @ - 1 ELSE @,
            !.heartbeatInterval = IF svc.heartbeatInterval = "unset" THEN "unset"
                                  ELSE "cleared",
            !.discoveries = IF svc.nativeP2P THEN @ - 1 ELSE @,
            !.nativeP2P = FALSE]
    /\ svcPeers' = <<>>
    /\ metricsHistory' = <<>>
    /\ currentRequest' = Undefined
    /\ last' = [op |-> "dispose"]
    /\ emitted' = <<>>
    /\ UNCHANGED <<config, localAIAvailable, manuallyStopped, chatLock,
                   calls, nreq, discVars, recorded, now>>

\* updateUserProfile({displayName})
Names == {<<"Bob">>, <<"Rob">>}
UpdateUserProfile(name) ==
    /\ config' = [config EXCEPT !.displayName = name]
    /\ last' = [op |-> "updateUserProfile"]
    /\ emitted' = <<>>
    /\ UNCHANGED <<svc, svcPeers, localAIAvailable, manuallyStopped, currentRequest, chatLock,
                   metricsHistory, calls, nreq, discVars, recorded, now>>

\* getPeers() of the service
svcGetPeers == MapValues(svcPeers)

\* --------------------------------------------------------------------------
\* Initial state: after the constructors, before initialize() and start()
\* --------------------------------------------------------------------------
Nodes   == {"A", "B"}
NoTimer == [active |-> FALSE, due |-> 0]
NoneLive == [sockets |-> 0, listeners |-> 0, timers |-> 0]

InitExceptHistory ==
    /\ config = [mode |-> "hybrid", enableP2P |-> TRUE, displayName |-> <<"Bob">>]
    /\ svc = [discoveries |-> 0, nativeP2P |-> FALSE,
              heartbeats |-> 0, heartbeatInterval |-> "unset",
              deviceName |-> <<"<undefined>">>]
    /\ svcPeers = <<>>
    /\ localAIAvailable = FALSE
    /\ manuallyStopped = FALSE
    /\ currentRequest = Undefined
    /\ chatLock = <<>>
    /\ calls = [c \in Callers |-> IdleCall]
    /\ nreq = 0
    /\ isRunning = [n \in Nodes |-> FALSE]
    /\ mdns = [n \in Nodes |-> FALSE]
    /\ peers = [n \in Nodes |-> <<>>]
    /\ announceInterval = [n \in Nodes |-> NoTimer]
    /\ queryInterval = [n \in Nodes |-> NoTimer]
    /\ cleanupInterval = [n \in Nodes |-> NoTimer]
    /\ live = [n \in Nodes |-> NoneLive]
    /\ now = 0
    /\ net = {}
    /\ lostLast = [n \in Nodes |-> FALSE]
    /\ lost = FALSE
    /\ evicted = [n \in Nodes |-> {}]
    /\ emitted = <<>>
    /\ last = [op |-> "init"]
Init ==
    /\ InitExceptHistory
    /\ metricsHistory = <<>>
    /\ recorded = <<>>

\* --------------------------------------------------------------------------
\* The router on its own, its peer events and probes coming from outside
\* --------------------------------------------------------------------------
NoCallPending == \A c \in Callers : calls[c].pc = "idle"

RouterSteps ==
    \/ \E c \in Callers, res \in FetchResults, usage \in Usages :
            (res = "ok" \/ usage = 0) /\ FetchReturns(c, res, usage)
    \/ \E c \in Callers, mres \in MetricsResults : MetricsReturns(c, mres)
    \/ \E c \in Callers, r \in LocalOutcomes : LocalReturns(c, r)
    \/ \E c \in Callers : Return(c)
    \/ \E id \in RouterPeerIds : PeerDiscoveredEvent(id)
    \/ \E id \in RouterPeerIds : PeerLostEvent(id)
    \/ \E m \in Modes : UpdateConfigMode(m)
    \/ \E res \in {"ok", "notok", "throws"} : TestLocalAI(res)
    \/ \E ok \in BOOLEAN : StartLocalAI(ok)
    \/ \E ok \in BOOLEAN : StopLocalAI(ok)

\* chat() calls issued one at a time, by one caller, each with another prompt
NextSeq ==
    \/ NoCallPending /\ Chat(1, Prompts[nreq + 1])
    \/ RouterSteps
SpecSeq == Init /\ [][NextSeq]_vars
\* The same, with the steps the program takes by itself: llmService.chat
\* settles (its prompt races a timer of its own) and a settled call is handed
\* to its caller. The two fetches of distributedChat carry no timer and no
\* abort signal: they settle when the backend or the network makes them.
SpecSeqFair ==
    /\ SpecSeq
    /\ WF_vars(\E c \in Callers, r \in LocalOutcomes : LocalReturns(c, r))
    /\ WF_vars(\E c \in Callers : Return(c))

\* chat() calls issued at any time
NextConc ==
    \/ \E c \in Callers : Chat(c, MessageOf(c))
    \/ RouterSteps
SpecConc == Init /\ [][NextConc]_vars

\* Concurrent chat() calls that all go to the local engine, whose prompt
\* settles in the end: it races a timer of 120 s.
NextLocal ==
    \/ \E c \in Callers : chatSwitch(getOptimalMode) = "localChat" /\ Chat(c, MessageOf(c))
    \/ \E c \in Callers, r \in LocalOutcomes : LocalReturns(c, r)
    \/ \E c \in Callers : Return(c)
    \/ \E m \in Modes : UpdateConfigMode(m)
    \/ \E id \in RouterPeerIds : PeerDiscoveredEvent(id)
SpecLocal ==
    /\ Init /\ [][NextLocal]_vars
    /\ WF_vars(\E c \in Callers, r \in LocalOutcomes : LocalReturns(c, r))

\* The router after enough calls to fill metricsHistory up to a few samples
\* below its capacity: sample i of peer a1, from a request of i tokens.
Prefill(k) == [i \in 1..k |-> Sample(<<"a1">>, i)]
InitRing ==
    /\ InitExceptHistory
    /\ \E k \in (maxMetricsHistory - PrefillSlack)..maxMetricsHistory :
            metricsHistory = Prefill(k) /\ recorded = Prefill(k)
NextRing ==
    \/ NoCallPending /\ Chat(1, Prompts[nreq + 1])
    \/ \E usage \in Usages : FetchReturns(1, "ok", usage)
    \/ \E mres \in {"notok", "ok"} : MetricsReturns(1, mres)
    \/ \E r \in LocalOutcomes : LocalReturns(1, r)
    \/ Return(1)
    \/ \E id \in RouterPeerIds : PeerDiscoveredEvent(id)
    \/ \E id \in RouterPeerIds : PeerLostEvent(id)
    \/ TestLocalAI("ok")
SpecRing == InitRing /\ [][NextRing]_vars

\* The service with its configuration changed while it runs: calls one at a
\* time, one peer, peer events only from a discovery instance the service
\* started, and of the outcomes of a dispatch a network error and a full answer.
NextSvc ==
    \/ NoCallPending /\ Chat(1, Prompts[nreq + 1])
    \/ \E res \in {"neterr", "ok"} : FetchReturns(1, res, 0)
    \/ \E mres \in {"reject", "ok"} : MetricsReturns(1, mres)
    \/ \E r \in LocalOutcomes : LocalReturns(1, r)
    \/ Return(1)
    \/ svc.discoveries > 0 /\ PeerDiscoveredEvent(<<"a1">>)
    \/ svc.discoveries > 0 /\ PeerLostEvent(<<"a1">>)
    \/ \E m \in Modes : UpdateConfigMode(m)
    \/ \E running, startOk, probe \in BOOLEAN : Initialize(running, startOk, probe)
    \/ \E enable, running, startOk, probe \in BOOLEAN :
            UpdateConfigP2P(enable, running, startOk, probe)
    \/ \E name \in Names : UpdateUserProfile(name)
    \/ Dispose
SpecSvc == Init /\ [][NextSvc]_vars

\* --------------------------------------------------------------------------
\* NativeP2PDiscovery: strings, packets, announceService, handleResponse
\* --------------------------------------------------------------------------
RECURSIVE Split(_), Join(_), NumberToString(_), DigitsValue(_, _)

\* No string of the program contains this atom: it stands for undefined.
UndefinedStr == <<"<undefined>">>

\* str.split('=')
Split(str) ==
    IF \A i \in 1..Len(str) : str[i] # "="
    THEN <<str>>
    ELSE LET i == CHOOSE j \in 1..Len(str) :
                      str[j] = "=" /\ \A k \in 1..(j - 1) : str[k] # "="
         IN  <<SubSeq(str, 1, i - 1)>> \o Split(SubSeq(str, i + 1, Len(str)))

\* parts.join('=')
Join(parts) ==
    IF Len(parts) = 0 THEN <<>>
    ELSE IF Len(parts) = 1 THEN parts[1]
    ELSE parts[1] \o <<"=">> \o Join(Tail(parts))

\* `${n}` for a non-negative integer
Digits == <<"0", "1", "2", "3", "4", "5", "6", "7", "8", "9">>
NumberToString(n) ==
    IF n < 10 THEN <<Digits[n + 1]>>
    ELSE NumberToString(n \div 10) \o <<Digits[(n % 10) + 1]>>

\* parseInt(str): the value of the leading digits, NaN when there is none
NaN == -1
IsDigit(a) == \E d \in 1..10 : Digits[d] = a
DigitOf(a) == (CHOOSE d \in 1..10 : Digits[d] = a) - 1
DigitsValue(str, acc) ==
    IF Len(str) = 0 \/ ~IsDigit(str[1]) THEN acc
    ELSE DigitsValue(Tail(str), acc * 10 + DigitOf(str[1]))
parseInt(str) ==
    IF Len(str) = 0 \/ ~IsDigit(str[1]) THEN NaN ELSE DigitsValue(str, 0)

\* a || b on strings
OrElse(a, b) == IF a = UndefinedStr \/ a = <<>> THEN b ELSE a

serviceType == <<"_latentra._tcp.local">>
\* `${deviceName}.${serviceType}`
InstanceName(name) == name \o <<".">> \o serviceType
\* str.includes(sub)
Includes(str, sub) ==
    \E i \in 1..(Len(str) - Len(sub) + 1) : SubSeq(str, i, i + Len(sub) - 1) = sub

\* What os and process report on each machine.
Host(n) ==
    IF n = "A"
    THEN [hostname |-> "host-a", cpus |-> <<<<"X">>>>, totalmemGB |-> 16,
          platform |-> <<"linux">>, arch |-> <<"x64">>,
          interfaces |-> <<[address |-> "127.0.0.1", internal |-> TRUE,  family |-> "IPv4"],
                           [address |-> "fe80::a",   internal |-> FALSE, family |-> "IPv6"],
                           [address |-> "10.0.0.1",  internal |-> FALSE, family |-> "IPv4"]>>]
    ELSE [hostname |-> "host-b", cpus |-> <<<<"M1">>>>, totalmemGB |-> 8,
          platform |-> <<"darwin">>, arch |-> <<"arm64">>,
          interfaces |-> <<[address |-> "127.0.0.1", internal |-> TRUE,  family |-> "IPv4"],
                           [address |-> "10.0.0.2",  internal |-> FALSE, family |-> "IPv4"]>>]

\* constructor arguments
deviceId(n)   == IF n = "A" THEN <<"a1">> ELSE <<"b1">>
deviceName(n) == IF n = "A" THEN <<"Ann", "=", "PC">> ELSE <<"Bob">>
apiPort(n)    == 8080

\* collectSystemSpecs()
collectSystemSpecs(n) ==
    LET h        == Host(n)
        cpuModel == IF Len(h.cpus) > 0 THEN h.cpus[1] ELSE <<"Unknown">>
        memoryGB == h.totalmemGB
        vramGB   == IF h.platform = <<"darwin">> /\ h.arch = <<"arm64">>
                    THEN (memoryGB + 1) \div 2        \* Math.round(memoryGB * 0.5)
                    ELSE IF h.platform = <<"darwin">> THEN 4
                    ELSE IF memoryGB >= 16 THEN 6 ELSE 4
    IN  [cpu |-> cpuModel, memory |-> memoryGB, vram |-> vramGB,
         platform |-> h.platform, arch |-> h.arch]
systemSpecs(n) == collectSystemSpecs(n)

\* getLocalAddresses()
getLocalAddresses(n) ==
    LET kept == SelectSeq(Host(n).interfaces,
                          LAMBDA d : ~d.internal /\ d.family = "IPv4")
    IN  [i \in 1..Len(kept) |-> kept[i].address]

\* The response packet an instance with these fields announces. A record
\* whose data is missing has shape "nodata".
\* First a variant that leaves the specs out of the TXT record.
AdvertisementNoSpecs(ad) ==
    [answers |->
        <<[type |-> "PTR", shape |-> "ok", name |-> serviceType,
           data |-> InstanceName(ad.name)],
          [type |-> "SRV", shape |-> "ok", name |-> InstanceName(ad.name),
           data |-> [port |-> ad.port, target |-> ad.hostname]],
          [type |-> "TXT", shape |-> "ok", name |-> InstanceName(ad.name),
           data |-> << <<"id", "=">> \o ad.id,
                       <<"name", "=">> \o ad.name,
                       <<"platform", "=">> \o ad.specs.platform,
                       <<"arch", "=">> \o ad.specs.arch >>]>>
        \o [i \in 1..Len(ad.addresses) |->
                [type |-> "A", shape |-> "ok", name |-> ad.hostname,
                 data |-> ad.addresses[i]]],
     additionals |-> <<>>]
Advertisement(ad) ==
    [answers |->
        <<[type |-> "PTR", shape |-> "ok", name |-> serviceType,
           data |-> InstanceName(ad.name)],
          [type |-> "SRV", shape |-> "ok", name |-> InstanceName(ad.name),
           data |-> [port |-> ad.port, target |-> ad.hostname]],
          [type |-> "TXT", shape |-> "ok", name |-> InstanceName(ad.name),
           data |-> << <<"id", "=">> \o ad.id,
                       <<"name", "=">> \o ad.name,
                       <<"platform", "=">> \o ad.specs.platform,
                       <<"arch", "=">> \o ad.specs.arch,
                       <<"cpu", "=">> \o ad.specs.cpu,
                       <<"memory", "=">> \o NumberToString(ad.specs.memory),
                       <<"vram", "=">> \o NumberToString(ad.specs.vram) >>]>>
        \o [i \in 1..Len(ad.addresses) |->
                [type |-> "A", shape |-> "ok", name |-> ad.hostname,
                 data |-> ad.addresses[i]]],
     additionals |-> <<>>]

\* The values an instance announces
Announced(n) ==
    [id |-> deviceId(n), name |-> deviceName(n), port |-> apiPort(n),
     hostname |-> Host(n).hostname, addresses |-> getLocalAddresses(n),
     specs |-> systemSpecs(n)]

\* announceService(): the packet passed to mdns.respond
announceService(n) == Advertisement(Announced(n))

\* queryPeers(): the packet passed to mdns.query
queryPeers(n) == [questions |-> <<[name |-> serviceType, type |-> "PTR"]>>]

\* array.find(pred): the index of the first record named `name`, 0 if none
FindByName(records, name) ==
    IF \E i \in 1..Len(records) : records[i].name = name
    THEN CHOOSE i \in 1..Len(records) :
            /\ records[i].name = name
            /\ \A j \in 1..(i - 1) : records[j].name # name
    ELSE 0

\* The loop over txt.data that fills txtData
RECURSIVE ParseTxt(_, _)
ParseTxt(items, txtData) ==
    IF Len(items) = 0 THEN txtData
    ELSE LET parts == Split(items[1])
             key   == parts[1]
             value == Join(Tail(parts))
         IN  ParseTxt(Tail(items), MapSet(txtData, key, value))
TxtField(txtData, key) ==
    IF MapHas(txtData, key) THEN MapGet(txtData, key) ELSE UndefinedStr

\* The peer record handleResponse builds from the records of one instance
MakePeer(txtData, srv, aRecord) ==
    [id        |-> TxtField(txtData, <<"id">>),
     name      |-> OrElse(TxtField(txtData, <<"name">>), <<"Unknown Device">>),
     address   |-> IF aRecord.shape = "nodata" THEN "<undefined>" ELSE aRecord.data,
     port      |-> srv.data.port,
     userAgent |-> OrElse(TxtField(txtData, <<"platform">>), <<"unknown">>)
                   \o <<"/">> \o OrElse(TxtField(txtData, <<"arch">>), <<"unknown">>),
     lastSeen  |-> now,
     specs     |-> [cpu      |-> OrElse(TxtField(txtData, <<"cpu">>), <<"Unknown">>),
                    memory   |-> parseInt(OrElse(TxtField(txtData, <<"memory">>), <<"0">>)),
                    vram     |-> parseInt(OrElse(TxtField(txtData, <<"vram">>), <<"0">>)),
                    platform |-> OrElse(TxtField(txtData, <<"platform">>), <<"unknown">>),
                    arch     |-> OrElse(TxtField(txtData, <<"arch">>), <<"unknown">>)]]

\* The "skip ourselves" test; first a variant that never skips.
IsSelfNever(n, txtData) == FALSE
IsSelf(n, txtData) == TxtField(txtData, <<"id">>) = deviceId(n)

\* this.peers.set(peer.id, peer); first variants that key the entry by the
\* peer's name, and that keep the entry of a known id.
UpsertByName(map, peer) == MapSet(map, peer.name, peer)
UpsertKeepFirst(map, peer) ==
    IF MapHas(map, peer.id) THEN map ELSE MapSet(map, peer.id, peer)
Upsert(map, peer) == MapSet(map, peer.id, peer)

\* const isNewPeer = !this.peers.has(peer.id); first a variant that compares
\* the fields of the record instead.
isNewPeerByFields(map, peer) == ~MapHas(map, peer.id) \/ MapGet(map, peer.id) # peer
isNewPeer(map, peer) == ~MapHas(map, peer.id)

\* One iteration of the loop over ptrRecords. st is the loop's state: the
\* map, the events emitted so far, and whether an exception ended the loop.
HandlePtr(n, ptr, srvRecords, txtRecords, aRecords, st) ==
    IF st.thrown THEN st
    ELSE IF ptr.shape = "nodata" THEN st                    \* !ptr.data
    ELSE IF ~Includes(ptr.data, serviceType) THEN st
    ELSE LET si == FindByName(srvRecords, ptr.data)
             ti == FindByName(txtRecords, ptr.data)
         IN  IF si = 0 \/ ti = 0 THEN st
             ELSE IF txtRecords[ti].shape = "nodata"        \* txt.data is not iterable
             THEN [st EXCEPT !.thrown = TRUE]
             ELSE LET txtData == ParseTxt(txtRecords[ti].data, <<>>)
                  IN  IF IsSelf(n, txtData) THEN st
                      ELSE IF srvRecords[si].shape = "nodata"   \* srv.data.target throws
                      THEN [st EXCEPT !.thrown = TRUE]
                      ELSE LET ai == FindByName(aRecords, srvRecords[si].data.target)
                           IN  IF ai = 0 THEN st
                               ELSE LET peer  == MakePeer(txtData, srvRecords[si], aRecords[ai])
                                        isNew == isNewPeer(st.peers, peer)
                                    IN  [st EXCEPT
                                            !.peers = Upsert(st.peers, peer),
                                            !.emitted = IF isNew
                                                THEN Append(st.emitted,
                                                        [type |-> "peer-discovered",
                                                         node |-> n, peer |-> peer])
                                                ELSE st.emitted]

RECURSIVE HandlePtrs(_, _, _, _, _, _)
HandlePtrs(n, ptrRecords, srvRecords, txtRecords, aRecords, st) ==
    IF Len(ptrRecords) = 0 THEN st
    ELSE HandlePtrs(n, Tail(ptrRecords), srvRecords, txtRecords, aRecords,
                    HandlePtr(n, ptrRecords[1], srvRecords, txtRecords, aRecords, st))

\* handleResponse(response): the map and the events it leaves
handleResponse(n, response, map) ==
    LET allRecords == response.answers \o response.additionals
        OfType(ts) == SelectSeq(allRecords, LAMBDA r : r.type \in ts)
    IN  HandlePtrs(n, OfType({"PTR"}), OfType({"SRV"}), OfType({"TXT"}),
                   OfType({"A", "AAAA"}),
                   [peers |-> map, emitted |-> <<>>, thrown |-> FALSE])

\* The periods of the three timers start() sets
announceMs == 20000
queryMs    == 5000
cleanupMs  == 15000

\* cleanupStalePeers(): the map and the events it leaves.
\* First a timeout of one announce interval only.
timeoutOneInterval == announceMs
timeout == 45000
\* The staleness test; first variants that evict a record exactly as old as
\* the timeout, and that subtract the wrong way round.
IsStaleAtTimeout(peer) == now - peer.lastSeen >= timeout
IsStaleReversed(peer)  == peer.lastSeen - now > timeout
IsStale(peer) == now - peer.lastSeen > timeout
cleanupStalePeers(n, map) ==
    LET stale == SelectSeq(map, LAMBDA e : IsStale(e.val))
    IN  [peers   |-> SelectSeq(map, LAMBDA e : ~IsStale(e.val)),
         emitted |-> [i \in 1..Len(stale) |->
                        [type |-> "peer-lost", node |-> n, peer |-> stale[i].val]]]

\* getPeers()
getPeers(n) == MapValues(peers[n])

\* --------------------------------------------------------------------------
\* NativeP2PDiscovery: start, stop, timers, packets, the clock
\* --------------------------------------------------------------------------

Timer(ms) == [active |-> TRUE, due |-> now + ms]
Due(t)    == t.active /\ t.due = now

\* A multicast send reaches every open socket. The sender's own socket gets
\* its packet through the loopback within the same step; the packets to the
\* other sockets are in flight.
Multicast(kind, from, payload, open) ==
    {[kind |-> kind, from |-> from, to |-> m, payload |-> payload] : m \in open \ {from}}
\* Kinds of packet in flight: a query, the announce of start() and of the
\* announce timer, and the announce that answers a query.
ResponseKinds == {"announce", "answer"}
OpenSockets(sockets) == {m \in Nodes : sockets[m]}

\* the 'query' listener: whether the query asks for the service
hasOurService(query) ==
    \E i \in 1..Len(query.questions) :
        query.questions[i].name = serviceType /\ query.questions[i].type = "PTR"

\* What an announce puts in flight, and what its loopback does to the
\* sender's own map.
SendAnnounce(n, open) == Multicast("announce", n, announceService(n), open)
SendAnswer(n, open)   == Multicast("answer", n, announceService(n), open)
OwnAnnounce(n, map)   == handleResponse(n, announceService(n), map)
\* What a query puts in flight: the query, and the announce the sender's own
\* 'query' listener answers it with.
SendQuery(n, open) ==
    Multicast("query", n, queryPeers(n), open)
        \cup (IF hasOurService(queryPeers(n)) THEN SendAnswer(n, open) ELSE {})

\* The body of start() after its guard (lines 288-319)
DoStart(n) ==
    /\ mdns' = [mdns EXCEPT ![n] = TRUE]
    /\ isRunning' = [isRunning EXCEPT ![n] = TRUE]
    /\ net' = net \cup SendAnnounce(n, OpenSockets(mdns'))
                  \cup SendQuery(n, OpenSockets(mdns'))
    /\ LET own == OwnAnnounce(n, peers[n])
       IN  /\ peers' = [peers EXCEPT ![n] = own.peers]
           /\ emitted' = own.emitted
    /\ announceInterval' = [announceInterval EXCEPT ![n] = Timer(announceMs)]
    /\ queryInterval' = [queryInterval EXCEPT ![n] = Timer(queryMs)]
    /\ cleanupInterval' = [cleanupInterval EXCEPT ![n] = Timer(cleanupMs)]
    /\ live' = [live EXCEPT ![n] = [sockets   |-> @.sockets + 1,
                                    listeners |-> @.listeners + 2,
                                    timers    |-> @.timers + 3]]
    /\ UNCHANGED <<lostLast, lost, evicted>>

\* start(); first a variant without the isRunning guard.
StartUnguarded(n) ==
    /\ DoStart(n)
    /\ last' = [op |-> "start", node |-> n]
    /\ UNCHANGED <<svcVars, now>>
Start(n) ==
    /\ IF isRunning[n]
       THEN /\ UNCHANGED <<discVars>>
            /\ emitted' = <<>>
       ELSE DoStart(n)
    /\ last' = [op |-> "start", node |-> n]
    /\ UNCHANGED <<svcVars, now>>

\* The interval timers of an instance that stop() finds set
TimerCount(n) ==
    (IF announceInterval[n].active THEN 1 ELSE 0)
        + (IF queryInterval[n].active THEN 1 ELSE 0)
        + (IF cleanupInterval[n].active THEN 1 ELSE 0)

\* stop(); first variants that leave the socket open, and that do not clear
\* the cleanup timer.
StopSocketOpen(n) ==
    /\ IF ~isRunning[n]
       THEN UNCHANGED <<discVars>>
       ELSE /\ cleanupInterval' = [cleanupInterval EXCEPT ![n] = NoTimer]
            /\ announceInterval' = [announceInterval EXCEPT ![n] = NoTimer]
            /\ queryInterval' = [queryInterval EXCEPT ![n] = NoTimer]
            /\ peers' = [peers EXCEPT ![n] = <<>>]
            /\ isRunning' = [isRunning EXCEPT ![n] = FALSE]
            /\ live' = [live EXCEPT ![n] = [@ EXCEPT !.timers = @ - TimerCount(n)]]
            /\ UNCHANGED <<mdns, net, lostLast, lost, evicted>>
    /\ last' = [op |-> "stop", node |-> n]
    /\ emitted' = <<>>
    /\ UNCHANGED <<svcVars, now>>
StopKeepsCleanupTimer(n) ==
    /\ IF ~isRunning[n]
       THEN UNCHANGED <<discVars>>
       ELSE /\ mdns' = [mdns EXCEPT ![n] = FALSE]
            /\ announceInterval' = [announceInterval EXCEPT ![n] = NoTimer]
            /\ queryInterval' = [queryInterval EXCEPT ![n] = NoTimer]
            /\ peers' = [peers EXCEPT ![n] = <<>>]
            /\ isRunning' = [isRunning EXCEPT ![n] = FALSE]
            /\ live' = [live EXCEPT ![n] =
                    [sockets   |-> IF mdns[n] THEN @.sockets - 1 ELSE @.sockets,
                     listeners |-> IF mdns[n] THEN @.listeners - 2 ELSE @.listeners,
                     timers    |-> @.timers - (TimerCount(n) - 1)]]
            /\ UNCHANGED <<cleanupInterval, net, lostLast, lost, evicted>>
    /\ last' = [op |-> "stop", node |-> n]
    /\ emitted' = <<>>
    /\ UNCHANGED <<svcVars, now>>
Stop(n) ==
    /\ IF ~isRunning[n]
       THEN UNCHANGED <<discVars>>
       ELSE /\ mdns' = [mdns EXCEPT ![n] = FALSE]
            /\ cleanupInterval' = [cleanupInterval EXCEPT ![n] = NoTimer]
            /\ announceInterval' = [announceInterval EXCEPT ![n] = NoTimer]
            /\ queryInterval' = [queryInterval EXCEPT ![n] = NoTimer]
            /\ peers' = [peers EXCEPT ![n] = <<>>]
            /\ isRunning' = [isRunning EXCEPT ![n] = FALSE]
            /\ live' = [live EXCEPT ![n] =
                    [sockets   |-> IF mdns[n] THEN @.sockets - 1 ELSE @.sockets,
                     listeners |-> IF mdns[n] THEN @.listeners - 2 ELSE @.listeners,
                     timers    |-> @.timers - TimerCount(n)]]
            /\ UNCHANGED <<net, lostLast, lost, evicted>>
    /\ last' = [op |-> "stop", node |-> n]
    /\ emitted' = <<>>
    /\ UNCHANGED <<svcVars, now>>

\* setInterval(() => this.announceService(), 20000)
AnnounceTimer(n) ==
    /\ Due(announceInterval[n])
    /\ announceInterval' = [announceInterval EXCEPT ![n] = Timer(announceMs)]
    /\ IF mdns[n]
       THEN /\ net' = net \cup SendAnnounce(n, OpenSockets(mdns))
            /\ LET own == OwnAnnounce(n, peers[n])
               IN  /\ peers' = [peers EXCEPT ![n] = own.peers]
                   /\ emitted' = own.emitted
       ELSE /\ UNCHANGED <<net, peers>>
            /\ emitted' = <<>>
    /\ last' = [op |-> "step"]
    /\ UNCHANGED <<svcVars, now, isRunning, mdns, queryInterval,
                   cleanupInterval, live, lostLast, lost, evicted>>

\* setInterval(() => this.queryPeers(), 5000)
QueryTimer(n) ==
    /\ Due(queryInterval[n])
    /\ queryInterval' = [queryInterval EXCEPT ![n] = Timer(queryMs)]
    /\ IF mdns[n]
       THEN /\ net' = net \cup SendQuery(n, OpenSockets(mdns))
            /\ LET own == OwnAnnounce(n, peers[n])
               IN  /\ peers' = [peers EXCEPT ![n] = own.peers]
                   /\ emitted' = own.emitted
       ELSE /\ UNCHANGED <<net, peers>>
            /\ emitted' = <<>>
    /\ last' = [op |-> "step"]
    /\ UNCHANGED <<svcVars, now, isRunning, mdns, announceInterval,
                   cleanupInterval, live, lostLast, lost, evicted>>

\* setInterval(() => this.cleanupStalePeers(), 15000)
CleanupTimer(n) ==
    /\ Due(cleanupInterval[n])
    /\ cleanupInterval' = [cleanupInterval EXCEPT ![n] = Timer(cleanupMs)]
    /\ LET swept == cleanupStalePeers(n, peers[n])
       IN  /\ peers' = [peers EXCEPT ![n] = swept.peers]
           /\ emitted' = swept.emitted
           /\ evicted' = [evicted EXCEPT ![n] =
                    @ \cup {swept.emitted[i].peer.id : i \in 1..Len(swept.emitted)}]
    /\ last' = [op |-> "cleanup"]
    /\ UNCHANGED <<svcVars, now, isRunning, mdns, announceInterval, queryInterval,
                   net, live, lostLast, lost>>

\* mdns.on('response', ...): a packet in flight reaches an open socket
DeliverResponse(pkt) ==
    /\ pkt \in net /\ pkt.kind \in ResponseKinds
    /\ mdns[pkt.to]
    /\ net' = net \ {pkt}
    /\ LET handled == handleResponse(pkt.to, pkt.payload, peers[pkt.to])
       IN  /\ peers' = [peers EXCEPT ![pkt.to] = handled.peers]
           /\ emitted' = handled.emitted
    /\ lostLast' = [lostLast EXCEPT ![pkt.to] = lostLast[pkt.to] /\ pkt.kind # "announce"]
    /\ last' = [op |-> "response", tag |-> "net"]
    /\ UNCHANGED <<svcVars, now, isRunning, mdns, announceInterval, queryInterval,
                   cleanupInterval, live, lost, evicted>>

\* mdns.on('query', ...): the reactive announce
DeliverQuery(pkt) ==
    /\ pkt \in net /\ pkt.kind = "query"
    /\ mdns[pkt.to]
    /\ IF hasOurService(pkt.payload)
       THEN /\ net' = (net \ {pkt}) \cup SendAnswer(pkt.to, OpenSockets(mdns))
            /\ LET own == OwnAnnounce(pkt.to, peers[pkt.to])
               IN  /\ peers' = [peers EXCEPT ![pkt.to] = own.peers]
                   /\ emitted' = own.emitted
       ELSE /\ net' = net \ {pkt}
            /\ UNCHANGED peers
            /\ emitted' = <<>>
    /\ last' = [op |-> "step"]
    /\ UNCHANGED <<svcVars, now, isRunning, mdns, announceInterval,
                   queryInterval, cleanupInterval, live, lostLast, lost, evicted>>

\* mdns.destroy() closed the socket a packet was sent to: no listener runs
DropAtClosed(pkt) ==
    /\ pkt \in net /\ ~mdns[pkt.to]
    /\ net' = net \ {pkt}
    /\ last' = [op |-> "dropped"]
    /\ emitted' = <<>>
    /\ UNCHANGED <<svcVars, now, isRunning, mdns, peers, announceInterval,
                   queryInterval, cleanupInterval, live, lostLast, lost, evicted>>

\* An announcement is lost on the way to B. Of the announcements start() and
\* the announce timer of A send, no two in a row are lost; the answers to
\* queries are lost freely. (A query lost on the way to A has the effect of
\* its answer lost on the way to B.)
Lose(pkt) ==
    /\ pkt \in net /\ pkt.kind \in ResponseKinds /\ pkt.to = "B"
    /\ net' = net \ {pkt}
    /\ IF pkt.kind = "announce"
       THEN /\ ~lostLast[pkt.to]
            /\ lostLast' = [lostLast EXCEPT ![pkt.to] = TRUE]
       ELSE UNCHANGED lostLast
    /\ lost' = TRUE
    /\ last' = [op |-> "step"]
    /\ emitted' = <<>>
    /\ UNCHANGED <<svcVars, now, isRunning, mdns, peers, announceInterval,
                   queryInterval, cleanupInterval, live, evicted>>

\* The clock advances once every packet sent is delivered or lost and every
\* timer that is due has fired, and never past the next timer.
ActiveTimers ==
    {t \in {announceInterval[n] : n \in Nodes} \cup {queryInterval[n] : n \in Nodes}
           \cup {cleanupInterval[n] : n \in Nodes} : t.active}
Min(S) == CHOOSE x \in S : \A y \in S : x <= y
Tick ==
    /\ net = {}
    /\ \A t \in ActiveTimers : t.due > now
    /\ now < MaxTime
    /\ now' = Min({MaxTime} \cup {t.due : t \in ActiveTimers})
    /\ last' = [op |-> "step"]
    /\ emitted' = <<>>
    /\ UNCHANGED <<svcVars, discVars>>

\* --------------------------------------------------------------------------
\* One instance and the packets other devices send it
\* --------------------------------------------------------------------------
\* What other devices announce: A as it is, A after it changed name, address,
\* port and memory, a third device, and announcements carrying B's own id,
\* under B's name and under A's name.
AdA1      == Announced("A")
AdA1Moved == [id |-> deviceId("A"), name |-> <<"Ann2">>, port |-> 9090,
              hostname |-> "host-a2", addresses |-> <<"10.0.0.9">>,
              specs |-> [systemSpecs("A") EXCEPT !.memory = 32]]
AdC1      == [id |-> <<"c1">>, name |-> <<"Cy">>, port |-> 8080,
              hostname |-> "host-c", addresses |-> <<"10.0.0.3">>,
              specs |-> [cpu |-> <<"Z">>, memory |-> 4, vram |-> 4,
                         platform |-> <<"win32">>, arch |-> <<"x64">>]]
AdSelf    == Announced("B")
AdSelfAsA == [Announced("B") EXCEPT !.name = deviceName("A")]

\* Two announcements in one packet
Combine(p, q) == [answers |-> p.answers \o q.answers,
                  additionals |-> p.additionals \o q.additionals]

Inbound ==
    [c1          |-> Advertisement(AdC1),
     selfThenA1  |-> Combine(Advertisement(AdSelf), Advertisement(AdA1)),
     a1ThenSelf  |-> Combine(Advertisement(AdA1Moved), Advertisement(AdSelf)),
     selfAsA     |-> Combine(Advertisement(AdSelfAsA), Advertisement(AdA1))]
InboundTags == DOMAIN Inbound

\* mdns.on('response', ...): a packet of another device reaches the socket
ReceiveResponse(n, tag) ==
    /\ mdns[n]
    /\ LET handled == handleResponse(n, Inbound[tag], peers[n])
       IN  /\ peers' = [peers EXCEPT ![n] = handled.peers]
           /\ emitted' = handled.emitted
    /\ last' = [op |-> "response", tag |-> tag]
    /\ UNCHANGED <<svcVars, now, isRunning, mdns, announceInterval, queryInterval,
                   cleanupInterval, net, live, lostLast, lost, evicted>>

NextDisc ==
    \/ now <= MaxStartTime /\ Start("B")
    \/ Stop("B")
    \/ AnnounceTimer("B")
    \/ QueryTimer("B")
    \/ CleanupTimer("B")
    \/ \E tag \in InboundTags : ReceiveResponse("B", tag)
    \/ Tick
SpecDisc == Init /\ [][NextDisc]_vars

\* --------------------------------------------------------------------------
\* One instance and packets with records missing or out of shape
\* --------------------------------------------------------------------------
\* A's announcement with every record of one type taken out, with the data of
\* every record of one type missing, and with the id entry of its TXT record
\* missing.
Without(p, type) ==
    [p EXCEPT !.answers = SelectSeq(p.answers, LAMBDA r : r.type # type)]
NoData(p, type) ==
    [p EXCEPT !.answers = [i \in 1..Len(p.answers) |->
        IF p.answers[i].type = type
        THEN [p.answers[i] EXCEPT !.shape = "nodata"] ELSE p.answers[i]]]
NoTxtId(p) ==
    [p EXCEPT !.answers = [i \in 1..Len(p.answers) |->
        IF p.answers[i].type = "TXT"
        THEN [p.answers[i] EXCEPT !.data = Tail(p.answers[i].data)] ELSE p.answers[i]]]
Malformed ==
    [noSrv     |-> Without(Advertisement(AdA1), "SRV"),
     noTxt     |-> Without(Advertisement(AdA1), "TXT"),
     noA       |-> Without(Advertisement(AdA1), "A"),
     ptrNoData |-> NoData(Advertisement(AdA1), "PTR"),
     srvNoData |-> NoData(Advertisement(AdA1), "SRV"),
     txtNoData |-> NoData(Advertisement(AdA1), "TXT"),
     aNoData   |-> NoData(Advertisement(AdA1), "A"),
     txtNoId   |-> NoTxtId(Advertisement(AdA1)),
     c1ThenNoA |-> Combine(Advertisement(AdC1), Without(Advertisement(AdA1), "A"))]
MalformedTags == DOMAIN Malformed
\* The tags whose records are all there, one or more of them out of shape
MissingRecordTags == {"noSrv", "noTxt", "noA", "c1ThenNoA"}

\* mdns.on('response', ...): such a packet reaches the socket
ReceiveMalformed(n, tag) ==
    /\ mdns[n]
    /\ LET handled == handleResponse(n, Malformed[tag], peers[n])
       IN  /\ peers' = [peers EXCEPT ![n] = handled.peers]
           /\ emitted' = handled.emitted
    /\ last' = [op |-> "malformed", tag |-> tag]
    /\ UNCHANGED <<svcVars, now, isRunning, mdns, announceInterval, queryInterval,
                   cleanupInterval, net, live, lostLast, lost, evicted>>

NextMal ==
    \/ now <= MaxStartTime /\ Start("B")
    \/ AnnounceTimer("B")
    \/ QueryTimer("B")
    \/ CleanupTimer("B")
    \/ ReceiveResponse("B", "c1")
    \/ \E tag \in MalformedTags : now <= MaxMalformedTime /\ ReceiveMalformed("B", tag)
    \/ Tick
SpecMal == Init /\ [][NextMal]_vars

\* --------------------------------------------------------------------------
\* Two instances on one network
\* --------------------------------------------------------------------------
NextNet ==
    \/ \E n \in Nodes : now <= MaxStartTime /\ Start(n)
    \/ \E n \in Nodes : AnnounceTimer(n)
    \/ \E n \in Nodes : QueryTimer(n)
    \/ \E n \in Nodes : CleanupTimer(n)
    \/ \E pkt \in net : DeliverResponse(pkt)
    \/ \E pkt \in net : DeliverQuery(pkt)
    \/ \E pkt \in net : Lose(pkt)
    \/ Tick
SpecNet == Init /\ [][NextNet]_vars

\* --------------------------------------------------------------------------
\* Two instances, B started and stopped, no packet lost
\* --------------------------------------------------------------------------
NextLife ==
    \/ \E n \in Nodes : now <= MaxStartTime /\ Start(n)
    \/ Stop("B")
    \/ \E n \in Nodes : AnnounceTimer(n)
    \/ \E n \in Nodes : QueryTimer(n)
    \/ \E n \in Nodes : CleanupTimer(n)
    \/ \E pkt \in net : DeliverResponse(pkt)
    \/ \E pkt \in net : DeliverQuery(pkt)
    \/ \E pkt \in net : DropAtClosed(pkt)
    \/ Tick
SpecLife == Init /\ [][NextLife]_vars

\* --------------------------------------------------------------------------
\* The service with the discovery instance it starts (B) and another device (A)
\* --------------------------------------------------------------------------
\* emit(): the listeners startNativeP2PDiscovery registered run inside the
\* step that emits, on the events of the service's own instance.
RECURSIVE Listeners(_, _)
Listeners(m, events) ==
    IF Len(events) = 0 THEN m
    ELSE Listeners(IF events[1].node # "B" THEN m
                   ELSE IF events[1].type = "peer-discovered"
                        THEN onPeerDiscovered(m, events[1].peer)
                        ELSE onPeerLost(m, events[1].peer),
                   Tail(events))

\* initialize() of a service with enableP2P: LocalAI is found available or
\* not, startNativeP2PDiscovery() creates and starts the instance, and
\* startPeerDiscovery() sets the heartbeat if LocalAI is available.
ServiceInitialize(avail) ==
    /\ svc.discoveries = 0 /\ ~isRunning["B"] /\ now <= MaxStartTime
    /\ config.enableP2P
    /\ initialize(config, avail, avail, avail)
    /\ DoStart("B")
    /\ svcPeers' = Listeners(svcPeers, emitted')
    /\ last' = [op |-> "initialize"]
    /\ UNCHANGED <<config, manuallyStopped, currentRequest, chatLock,
                   metricsHistory, calls, nreq, recorded, now>>

\* discoverPeers() once GET /p2p/peers has answered 2xx with these peers: they
\* are set, then every entry last seen more than 30 s ago is deleted.
stalePeerMs == 30000
BackendPeer(id) ==
    [id |-> id, name |-> <<"Unknown">>, address |-> "10.0.0.7", port |-> 9000,
     status |-> "connected", specs |-> [cpu |-> <<>>], lastSeen |-> now,
     contribution |-> 0]
\* The backend runs alone and reports no peers of its own.
BackendLists == {<<>>}
RECURSIVE SetAll(_, _)
SetAll(m, ids) ==
    IF Len(ids) = 0 THEN m
    ELSE SetAll(MapSet(m, ids[1], BackendPeer(ids[1])), Tail(ids))
discoverPeers(m, res, ids) ==
    IF res = "ok"
    THEN SelectSeq(SetAll(m, ids), LAMBDA e : ~(now - e.val.lastSeen > stalePeerMs))
    ELSE m

\* The heartbeat timer (5000 ms, set in the same initialize() as B's query
\* timer and so due at the same instants) runs discoverPeers, whose fetch
\* fails or answers.
Heartbeat(res, ids) ==
    /\ svc.heartbeats > 0
    /\ Due(queryInterval["B"])
    /\ localAIAvailable
    /\ svcPeers' = discoverPeers(svcPeers, res, ids)
    /\ last' = [op |-> "heartbeat"]
    /\ emitted' = <<>>
    /\ UNCHANGED <<config, localAIAvailable, manuallyStopped, currentRequest, chatLock,
                   metricsHistory, calls, nreq, discVars, svc, recorded, now>>

\* A packet reaches an open socket; the service's listeners run on B's events
ServiceDeliverResponse(pkt) ==
    /\ pkt \in net /\ pkt.kind \in ResponseKinds
    /\ mdns[pkt.to]
    /\ net' = net \ {pkt}
    /\ LET handled == handleResponse(pkt.to, pkt.payload, peers[pkt.to])
       IN  /\ peers' = [peers EXCEPT ![pkt.to] = handled.peers]
           /\ emitted' = handled.emitted
    /\ svcPeers' = Listeners(svcPeers, emitted')
    /\ lostLast' = [lostLast EXCEPT ![pkt.to] = lostLast[pkt.to] /\ pkt.kind # "announce"]
    /\ last' = [op |-> "response", tag |-> "net"]
    /\ UNCHANGED <<config, localAIAvailable, manuallyStopped, currentRequest, chatLock,
                   metricsHistory, calls, nreq, svc, recorded, now,
                   isRunning, mdns, announceInterval, queryInterval,
                   cleanupInterval, live, lost, evicted>>

\* The sweep; the service's listeners run on B's events
ServiceCleanupTimer(n) ==
    /\ Due(cleanupInterval[n])
    /\ cleanupInterval' = [cleanupInterval EXCEPT ![n] = Timer(cleanupMs)]
    /\ LET swept == cleanupStalePeers(n, peers[n])
       IN  /\ peers' = [peers EXCEPT ![n] = swept.peers]
           /\ emitted' = swept.emitted
           /\ evicted' = [evicted EXCEPT ![n] =
                    @ \cup {swept.emitted[i].peer.id : i \in 1..Len(swept.emitted)}]
    /\ svcPeers' = Listeners(svcPeers, emitted')
    /\ last' = [op |-> "cleanup"]
    /\ UNCHANGED <<config, localAIAvailable, manuallyStopped, currentRequest, chatLock,
                   metricsHistory, calls, nreq, svc, recorded, now,
                   isRunning, mdns, announceInterval, queryInterval,
                   net, live, lostLast, lost>>

NextUI ==
    \/ \E avail \in BOOLEAN : ServiceInitialize(avail)
    \/ now <= MaxStartTime /\ Start("A")
    \/ \E n \in Nodes : AnnounceTimer(n)
    \/ \E n \in Nodes : QueryTimer(n)
    \/ \E n \in Nodes : ServiceCleanupTimer(n)
    \/ \E res \in {"fails", "ok"}, ids \in BackendLists : Heartbeat(res, ids)
    \/ \E pkt \in net : ServiceDeliverResponse(pkt)
    \/ \E pkt \in net : DeliverQuery(pkt)
    \/ Tick
SpecUI == Init /\ [][NextUI]_vars

\* ==========================================================================
\* Properties
\* ==========================================================================

\* What a call record shows right after chat() reached its first await
EnteredLocal(call)   == call.pc = "local" /\ call.localMessages = <<call.message>>
                        /\ call.httpCalls = 0
EnteredDispatch(call) == call.pc = "fetch" /\ call.localMessages = <<>>
                        /\ call.httpCalls = 1

C1_WitnessNoPeers ==
    /\ last.op = "chat" /\ last.in.mode = "distributed" /\ last.in.npeers = 0
    /\ EnteredDispatch(calls[last.caller])

\* The local fallback as a call record shows it: one local attempt with the
\* call's prompt, one HTTP call, no further dispatch.
FellBack(call) ==
    /\ call.pc \in {"local", "done"}
    /\ call.localMessages = <<call.message>>
    /\ call.httpCalls = 1
    /\ call.pc = "done" => call.outcome = call.localOutcome

DispatchFailures == FetchRejects \cup FetchNotOk \cup {"badjson", "null"}
MalformedBodies  == {"badjson", "null", "nochoices", "nocontent"}

\* C2: fallback-once. A dispatch that fails after it started (network error,
\* timeout, non-2xx status, malformed body) is followed by exactly one local
\* attempt with the same prompt, no second dispatch, and the caller gets the
\* outcome of that attempt and never the distributed error.
C2_FallbackOnce ==
    /\ (last.op = "fetchReturns" /\ last.res \in DispatchFailures)
            => FellBack(calls[last.caller])
    /\ (last.op = "metricsReturns" /\ last.data \in MalformedBodies)
            => FellBack(calls[last.caller])
    /\ \A c \in Callers :
            (calls[c].route = "distributed" /\ calls[c].distFailed) => FellBack(calls[c])

\* C2 without the body {choices: [{message: {}}]}: every failure the catch
\* block sees is followed by exactly one local attempt whose outcome is the
\* call's outcome.
C2_FallbackOnceWhenThrown ==
    /\ (last.op = "fetchReturns" /\ last.res \in DispatchFailures)
            => FellBack(calls[last.caller])
    /\ (last.op = "metricsReturns" /\ last.data \in MalformedBodies \ {"nocontent"})
            => FellBack(calls[last.caller])
    /\ \A c \in Callers :
            (calls[c].route = "distributed" /\ calls[c].distFailed) => FellBack(calls[c])

\* C3: in mode 'distributed' with the backend unavailable chat() fails at
\* once, for every peer count: no local attempt, no HTTP call, currentRequest
\* still undefined, metricsHistory untouched.
C3_DistributedUnavailable ==
    (last.op = "chat" /\ last.in.mode = "distributed" /\ ~last.in.avail) =>
        LET call == calls[last.caller]
        IN  /\ call.pc = "done"
            /\ call.outcome = [kind |-> "error", val |-> "LocalAI not available"]
            /\ call.localMessages = <<>>
            /\ call.httpCalls = 0
            /\ currentRequest = Undefined
            /\ metricsHistory = last.pre.metricsHistory

\* The refused call, made while peers are known and samples are recorded.
C3_Witness ==
    /\ last.op = "chat" /\ last.in.mode = "distributed" /\ ~last.in.avail
    /\ last.in.npeers > 0
    /\ metricsHistory # <<>>
    /\ calls[last.caller].outcome.kind = "error"

\* C4: with calls issued one at a time, currentRequest is defined only while
\* a dispatch is between its start and the hand-over of its result, error or
\* fallback; with no call pending getCurrentRequest() is undefined.
getCurrentRequest == currentRequest
C4_RequestCleared ==
    /\ getCurrentRequest # Undefined =>
            \E c \in Callers : calls[c].pc \in {"fetch", "metrics"}
    /\ NoCallPending => getCurrentRequest = Undefined

\* A call that fell back has settled and the request is gone.
C4_Witness ==
    \E c \in Callers :
        /\ calls[c].pc = "done" /\ calls[c].distFailed
        /\ getCurrentRequest = Undefined

\* --------------------------------------------------------------------------
\* Discovery
\* --------------------------------------------------------------------------
HasPeer(n, id)  == MapHas(peers[n], id)
PeerOf(n, id)   == MapGet(peers[n], id)
Age(peer)       == now - peer.lastSeen
Events(type)    == {e \in Range(emitted) : e.type = type}

NoSelfEntry ==
    \A n \in Nodes : \A i \in 1..Len(peers[n]) :
        peers[n][i].key # deviceId(n) /\ peers[n][i].val.id # deviceId(n)
NoSelfEvent ==
    \A e \in Events("peer-discovered") : e.peer.id # deviceId(e.node)
\* Packets in which every advertisement the handler reads carries B's own id
OnlySelfTags == {"selfAsA"}

\* C5: self-filtering. An advertisement whose TXT id is the local deviceId
\* never creates a registry entry, never emits 'peer-discovered' and leaves
\* the registry as it was, also when the packet carries other advertisements.
C5_SelfFiltered ==
    [][/\ NoSelfEntry'
       /\ NoSelfEvent'
       /\ (last'.op = "response" /\ last'.tag \in OnlySelfTags)
            => (peers' = peers /\ emitted' = <<>>)]_vars

\* B's own advertisement arrives in one packet with A's: A is recorded and
\* announced to the listeners, B is not.
C5_Witness ==
    /\ last.op = "response" /\ last.tag = "selfThenA1"
    /\ HasPeer("B", deviceId("A")) /\ MapSize(peers["B"]) = 1
    /\ Len(emitted) = 1

\* The record an advertisement should leave when it is handled now
ExpectedPeer(ad) ==
    [id        |-> ad.id,
     name      |-> ad.name,
     address   |-> ad.addresses[1],
     port      |-> ad.port,
     userAgent |-> ad.specs.platform \o <<"/">> \o ad.specs.arch,
     lastSeen  |-> now,
     specs     |-> ad.specs]
\* The advertisement of another device each inbound packet is handled last
LastHandled ==
    [c1 |-> AdC1, selfThenA1 |-> AdA1, a1ThenSelf |-> AdA1Moved]

\* C6: idempotent upsert. Whatever advertisements were received, the registry
\* holds one record per id, each stored under its own id, and after a packet
\* is handled the record of its id has the fields of that advertisement.
C6_IdempotentUpsert ==
    /\ \A n \in Nodes : \A i, j \in 1..Len(peers[n]) :
            /\ peers[n][i].key = peers[n][i].val.id
            /\ peers[n][i].key = peers[n][j].key => i = j
    /\ (last.op = "response" /\ last.tag \in DOMAIN LastHandled) =>
            LET ad == LastHandled[last.tag]
            IN  /\ HasPeer("B", ad.id)
                /\ PeerOf("B", ad.id) = ExpectedPeer(ad)

\* A's changed advertisement replaces the record of A's first one, next to
\* the record of a third device, without a second 'peer-discovered'.
C6_Witness ==
    /\ last.op = "response" /\ last.tag = "a1ThenSelf"
    /\ MapSize(peers["B"]) = 2
    /\ PeerOf("B", deviceId("A")).name = AdA1Moved.name
    /\ PeerOf("B", deviceId("A")).port = AdA1Moved.port
    /\ emitted = <<>>

C8_WitnessEarly ==
    /\ last.op = "cleanup"
    /\ \E e \in Events("peer-lost") :
            e.peer.id = deviceId("A") /\ Age(e.peer) = timeout + queryMs

\* C9: one lost announcement is tolerated. With announcements every 20 s of
\* which no two in a row are lost, a node never removes the other node from
\* its registry and never emits 'peer-lost', whatever the phase of its sweep.
C9_OneLossTolerated ==
    [][/\ Events("peer-lost")' = {}
       /\ \A n \in Nodes : \A i \in 1..Len(peers[n]) :
            MapHas(peers'[n], peers[n][i].key)]_vars

\* B sweeps while A's record is 40 s old, an announcement of A having been
\* lost, and keeps it.
C9_Witness ==
    /\ last.op = "cleanup" /\ lost
    /\ HasPeer("B", deviceId("A"))
    /\ Age(PeerOf("B", deviceId("A"))) = 2 * announceMs
    /\ ~Due(cleanupInterval["B"])

Other(n) == CHOOSE m \in Nodes : m # n

\* C10: discovery round trip. The record a node holds of the other node has
\* the id, name, address, port, cpu, memory, vram, platform and arch the other
\* node announces; 'peer-discovered' carries that record; and with both nodes
\* running and no packet lost, each knows the other as soon as the packets
\* sent are delivered, which is before the first query interval ends.
C10_RoundTrip ==
    /\ \A n \in Nodes : HasPeer(n, deviceId(Other(n))) =>
            PeerOf(n, deviceId(Other(n)))
                = [ExpectedPeer(Announced(Other(n)))
                     EXCEPT !.lastSeen = PeerOf(n, deviceId(Other(n))).lastSeen]
    /\ \A e \in Events("peer-discovered") :
            /\ e.peer = ExpectedPeer(Announced(Other(e.node)))
            /\ HasPeer(e.node, e.peer.id) /\ PeerOf(e.node, e.peer.id) = e.peer
    /\ (~lost /\ net = {} /\ \A n \in Nodes : isRunning[n]) =>
            \A n \in Nodes : HasPeer(n, deviceId(Other(n)))

\* B, started one query interval after A, hears A's answer to its first
\* query and emits 'peer-discovered' with A's record.
C10_Witness ==
    /\ last.op = "response" /\ ~lost /\ now = queryMs
    /\ \E e \in Events("peer-discovered") :
            /\ e.node = "B" /\ e.peer.id = deviceId("A")
            /\ e.peer.specs.memory = Host("A").totalmemGB
            /\ e.peer.name = deviceName("A")


\* --------------------------------------------------------------------------
\* Discovery life cycle
\* --------------------------------------------------------------------------
OneLive == [sockets |-> 1, listeners |-> 2, timers |-> 3]
TimersActive(n) ==
    announceInterval[n].active /\ queryInterval[n].active /\ cleanupInterval[n].active
TimersOff(n) ==
    announceInterval[n] = NoTimer /\ queryInterval[n] = NoTimer /\ cleanupInterval[n] = NoTimer

\* C11: start() is idempotent. Called on a running instance it opens no
\* socket, registers no listener, schedules no timer, sends no packet and
\* leaves the registry and isRunning as they were.
C11_StartIdempotent ==
    [][(last'.op = "start" /\ isRunning[last'.node]) =>
            /\ UNCHANGED <<isRunning, mdns, peers, announceInterval, queryInterval,
                           cleanupInterval, live, net>>
            /\ emitted' = <<>>]_vars

\* start() was called on B while B was running and knew A.
C11_Witness ==
    /\ last.op = "start" /\ last.node = "B"
    /\ HasPeer("B", deviceId("A")) /\ isRunning["A"]
    /\ live["B"] = OneLive /\ net = {}

\* C12: when stop() returns the loop is stopped, the registry empty, the
\* socket destroyed and no timer active; a running loop has exactly one
\* socket and one timer of each kind, however often it was started and stopped.
C12_StopTearsDown ==
    /\ \A n \in Nodes :
            IF isRunning[n]
            THEN mdns[n] /\ TimersActive(n) /\ live[n] = OneLive
            ELSE ~mdns[n] /\ TimersOff(n) /\ live[n] = NoneLive /\ peers[n] = <<>>
    /\ last.op = "stop" => ~isRunning[last.node]

\* stop() returned on B after A had discovered it.
C12_Witness ==
    /\ last.op = "stop" /\ last.node = "B" /\ ~isRunning["B"]
    /\ isRunning["A"] /\ HasPeer("A", deviceId("B"))
\* B was started again after a stop: A still holds the record of B's first
\* run, B has forgotten A.
C12_WitnessRestart ==
    /\ last.op = "start" /\ last.node = "B" /\ now = MaxStartTime
    /\ isRunning["A"] /\ HasPeer("A", deviceId("B"))
    /\ ~HasPeer("B", deviceId("A")) /\ live["B"] = OneLive

\* C13: no callback after stop(). While B is stopped it sends no packet, its
\* timers are off, its registry stays empty and it emits no event, also when
\* a packet sent to it before the stop arrives afterwards.
C13_NoCallbackAfterStop ==
    [][(~isRunning["B"] /\ ~isRunning'["B"]) =>
            /\ peers'["B"] = <<>>
            /\ TimersOff("B")'
            /\ {pkt \in net' : pkt.from = "B"} \subseteq net
            /\ \A i \in 1..Len(emitted') : emitted'[i].node # "B"]_vars

\* A packet A sent to B arrived after B's stop().
C13_Witness ==
    /\ last.op = "dropped" /\ ~isRunning["B"] /\ isRunning["A"]
    /\ peers["B"] = <<>> /\ HasPeer("A", deviceId("B"))


\* --------------------------------------------------------------------------
\* The service and its configuration
\* --------------------------------------------------------------------------
\* C14: whenever config.enableP2P is false, getPeers() is empty, no discovery
\* loop and no heartbeat runs, and chat() executes on the local engine
\* whatever config.mode and localAIAvailable are.
C14_DisabledMeansLocal ==
    ~config.enableP2P =>
        /\ svcGetPeers = <<>>
        /\ svc.discoveries = 0 /\ svc.heartbeats = 0
        /\ last.op = "chat" => EnteredLocal(calls[last.caller])

\* The announcement the discovery instance of the service sends, and the
\* name a receiver reads from it
ServiceAnnouncement ==
    Advertisement([Announced("B") EXCEPT !.name = svc.deviceName])
AnnouncedName(packet) ==
    LET txt == SelectSeq(packet.answers, LAMBDA r : r.type = "TXT")
    IN  TxtField(ParseTxt(txt[1].data, <<>>), <<"name">>)

\* C15: once updateUserProfile has changed displayName, every announcement
\* the running discovery loop sends carries the new name, without a restart.
C15_AnnouncesNewName ==
    svc.discoveries > 0 => AnnouncedName(ServiceAnnouncement) = config.displayName


\* --------------------------------------------------------------------------
\* Metrics
\* --------------------------------------------------------------------------
\* C16: no sample is recorded for a failed distributed call. The step in
\* which a dispatch fails and falls back to the local engine leaves
\* metricsHistory as it was when the call started (calls are issued one at a
\* time, so nothing else changes it meanwhile).
C16_NoSampleOnFailure ==
    [][\A c \in Callers :
            (~calls[c].distFailed /\ calls'[c].distFailed)
                => metricsHistory' = metricsHistory]_vars


\* C17: ring-buffer bound. Between operations metricsHistory holds at most
\* 100 samples; once more than 100 were recorded it holds exactly 100, the 100
\* recorded last, in the order they were recorded.
C17_RingBuffer ==
    /\ Len(metricsHistory) <= maxMetricsHistory
    /\ metricsHistory = LastN(recorded, maxMetricsHistory)
    /\ Len(recorded) > maxMetricsHistory => Len(metricsHistory) = maxMetricsHistory

\* One request with two peers known pushed the buffer over its capacity.
C17_Witness ==
    /\ last.op = "metricsReturns" /\ MapSize(svcPeers) = 2
    /\ Len(recorded) = maxMetricsHistory + 1
    /\ Len(metricsHistory) = maxMetricsHistory
    /\ metricsHistory[1] = recorded[2]
    /\ metricsHistory[maxMetricsHistory].peerId # metricsHistory[maxMetricsHistory - 1].peerId


\* The tokens the samples of one peer, and of all peers, add up to
RECURSIVE TokensOf(_, _)
TokensOf(history, ids) ==
    IF Len(history) = 0 THEN 0
    ELSE (IF history[1].peerId \in ids THEN history[1].tokensProcessed ELSE 0)
            + TokensOf(Tail(history), ids)
PeerIdsIn(history) == {history[i].peerId : i \in 1..Len(history)}
RECURSIVE SumNum(_)
SumNum(dist) == IF Len(dist) = 0 THEN 0 ELSE dist[1].percentage.num + SumNum(Tail(dist))

\* C18: getComputeDistribution() has one entry per peerId of the buffer, with
\* percentage = 100 * the peer's tokens / all tokens; the percentages add up
\* to 100 when there are tokens and are all 0 when there are none; the list
\* is empty with totalCompute 0 for an empty buffer; entries are in order of
\* non-increasing percentage.
C18_ComputeDistribution ==
    LET result == getComputeDistribution
        dist   == result.distribution
        total  == TokensOf(metricsHistory, PeerIdsIn(metricsHistory))
    IN  /\ result.totalCompute = total
        /\ Len(metricsHistory) = 0 => dist = <<>>
        /\ {dist[i].peerId : i \in 1..Len(dist)} = PeerIdsIn(metricsHistory)
        /\ \A i, j \in 1..Len(dist) : dist[i].peerId = dist[j].peerId => i = j
        /\ \A i \in 1..Len(dist) :
                LET p == dist[i].percentage
                IN  IF total > 0
                    THEN p.num * total = 100 * TokensOf(metricsHistory, {dist[i].peerId}) * p.den
                    ELSE p.num = 0
        /\ total > 0 => (\A i \in 1..Len(dist) : dist[i].percentage.den = total)
                        /\ SumNum(dist) = 100 * total
        /\ \A i \in 1..(Len(dist) - 1) :
                dist[i].percentage.num * dist[i + 1].percentage.den
                    >= dist[i + 1].percentage.num * dist[i].percentage.den

\* The peer recorded second holds all the tokens and comes first.
C18_Witness ==
    /\ Len(metricsHistory) = 2
    /\ metricsHistory[1].peerId # metricsHistory[2].peerId
    /\ metricsHistory[1].tokensProcessed = 0 /\ metricsHistory[2].tokensProcessed > 0
    /\ getComputeDistribution.distribution[1].peerId = metricsHistory[2].peerId
\* Samples without tokens: every percentage is 0.
C18_WitnessNoTokens ==
    /\ Len(metricsHistory) > 0 /\ getComputeDistribution.totalCompute = 0
    /\ Len(getComputeDistribution.distribution) = 2


\* --------------------------------------------------------------------------
\* Concurrent chat() calls
\* --------------------------------------------------------------------------
\* A distributed dispatch is in flight from its POST until distributedChat
\* returns or falls back; a local prompt is in flight while its run is the
\* one chatLock has started.
Dispatching(c) == calls[c].pc \in {"fetch", "metrics"}
Prompting(c)   == calls[c].pc = "local" /\ Running(chatLock, c)
Executing(c)   == Dispatching(c) \/ Prompting(c)

\* chatLock runs one prompt at a time, and a chained run is never stranded.
ChatLockSerializes ==
    /\ \A c, d \in Callers : Prompting(c) /\ Prompting(d) => c = d
    /\ \A c \in Callers : calls[c].pc = "local" <=> c \in Range(chatLock)
    /\ \A i, j \in 1..Len(chatLock) : chatLock[i] = chatLock[j] => i = j
ChatLockWitness ==
    /\ Len(chatLock) = 2
    /\ calls[chatLock[2]].pc = "local" /\ ~Prompting(chatLock[2])

\* C19: at no time are two chat executions (a distributed dispatch or a
\* local-engine prompt) in progress at once.
C19_OneExecutionInFlight ==
    \A c, d \in Callers : Executing(c) /\ Executing(d) => c = d

\* C20: whenever a distributed dispatch is in flight, getCurrentRequest()
\* returns a request whose id is that of a dispatch in flight; it is
\* undefined only when no dispatch is in flight.
C20_RequestNotCorrupted ==
    (\E c \in Callers : Dispatching(c)) =>
        /\ getCurrentRequest # Undefined
        /\ \E c \in Callers : Dispatching(c) /\ calls[c].requestId = getCurrentRequest.id
\* A pending call can always take its next step: no interleaving deadlocks.
C20_NoDeadlock ==
    \A c \in Callers :
        calls[c].pc \notin {"idle", "done"} =>
            \/ Dispatching(c)
            \/ \E d \in Callers : Prompting(d)


\* --------------------------------------------------------------------------
\* Termination of a dispatch
\* --------------------------------------------------------------------------
\* C21: a call on the distributed path whose chat-completions request or
\* metrics request is never answered is ended all the same: it does not stay
\* pending forever with currentRequest set.
C21_DispatchEnds ==
    \A c \in Callers : Dispatching(c) ~> ~Dispatching(c)


\* --------------------------------------------------------------------------
\* Health probes
\* --------------------------------------------------------------------------
\* C22: after testLocalAI() has returned success = false, for a network
\* error or for a non-2xx response, localAIAvailable is false: a hybrid
\* chat() would run locally and a 'distributed' chat() would raise its error.
C22_ProbeFailureReachesSelector ==
    [][\A res \in {"notok", "throws"} :
            TestLocalAI(res) =>
                /\ ~localAIAvailable'
                /\ config.mode = "hybrid" => (chatSwitch(getOptimalMode) = "localChat")'
                /\ config.mode = "distributed" =>
                        (distributedChat(IdleCall).call.route = "error")']_vars
\* The same for the probe that ends in a network error.
C22_ProbeErrorReachesSelector ==
    [][TestLocalAI("throws") =>
            /\ ~localAIAvailable'
            /\ config.mode = "hybrid" => (chatSwitch(getOptimalMode) = "localChat")'
            /\ config.mode = "distributed" =>
                    (distributedChat(IdleCall).call.route = "error")']_vars


\* --------------------------------------------------------------------------
\* Packets with records missing or out of shape
\* --------------------------------------------------------------------------
\* What a step leaves of the registry and of the events, the complete
\* announcement of c1 set aside
NotOfC1(map) == SelectSeq(map, LAMBDA e : e.key # AdC1.id)
DroppedWithoutEffect ==
    /\ NotOfC1(peers'["B"]) = NotOfC1(peers["B"])
    /\ \A i \in 1..Len(emitted') : emitted'[i].peer.id = AdC1.id

\* C23: a response in which the SRV, the TXT or the A record of an instance
\* is missing, or in which a record is out of shape, emits no event for that
\* instance and leaves the registry as it was for that instance.
C23_MalformedDropped ==
    [][\A tag \in MalformedTags :
            ReceiveMalformed("B", tag) => DroppedWithoutEffect]_vars
\* The same for the packets with a record missing only.
C23_MissingRecordDropped ==
    [][\A tag \in MissingRecordTags :
            ReceiveMalformed("B", tag) => DroppedWithoutEffect]_vars


\* --------------------------------------------------------------------------
\* Events and the registry
\* --------------------------------------------------------------------------
Keys(map) == {map[i].key : i \in 1..Len(map)}
EventIds(n, type) == {e.peer.id : e \in {x \in Events(type) : x.node = n}}

\* C24: handleResponse emits 'peer-discovered' for an id exactly when the id
\* was absent from the registry before the upsert, once: an advertisement of
\* a known id emits nothing whatever it changes, and an advertisement of an
\* id that was evicted emits the event again.
C24_DiscoveredIffNew ==
    [][last'.op = "response" =>
        /\ EventIds("B", "peer-discovered")' = Keys(peers'["B"]) \ Keys(peers["B"])
        /\ Len(emitted') = Cardinality(EventIds("B", "peer-discovered")')
        /\ \A id \in Keys(peers["B"]) : HasPeer("B", id)']_vars

\* A's changed advertisement, A being known: the record changes, no event.
C24_Witness ==
    /\ last.op = "response" /\ last.tag = "a1ThenSelf"
    /\ PeerOf("B", deviceId("A")).address = AdA1Moved.addresses[1]
    /\ PeerOf("B", deviceId("A")).lastSeen > timeout
    /\ emitted = <<>>
\* A is announced again after a sweep had removed it.
C24_WitnessAfterEviction ==
    /\ last.op = "response"
    /\ deviceId("A") \in evicted["B"]
    /\ deviceId("A") \in EventIds("B", "peer-discovered")


\* What a listener that keeps a set from the events alone makes of a step
AfterEvents(n, set) ==
    (set \cup EventIds(n, "peer-discovered")') \ EventIds(n, "peer-lost")'

\* C25: over the life of an instance, stop() and start() included, every id
\* that enters the registry comes with one 'peer-discovered' and every id that
\* leaves it with one 'peer-lost': the two alternate for each id, and a set
\* kept from the events alone equals the registry's key set.
C25_EventsTrackRegistry ==
    [][\A n \in Nodes :
        /\ Keys(peers'[n]) = AfterEvents(n, Keys(peers[n]))
        /\ EventIds(n, "peer-discovered")' \cap Keys(peers[n]) = {}
        /\ EventIds(n, "peer-lost")' \subseteq Keys(peers[n])]_vars
\* The same for the steps other than stop().
C25_EventsTrackRegistryWhileRunning ==
    [][last'.op # "stop" =>
        \A n \in Nodes :
            /\ Keys(peers'[n]) = AfterEvents(n, Keys(peers[n]))
            /\ EventIds(n, "peer-discovered")' \cap Keys(peers[n]) = {}
            /\ EventIds(n, "peer-lost")' \subseteq Keys(peers[n])]_vars


\* --------------------------------------------------------------------------
\* The peers the service shows
\* --------------------------------------------------------------------------
getStatus == [mode |-> getOptimalMode, localAIAvailable |-> localAIAvailable,
              peersConnected |-> MapSize(svcPeers)]

\* C26: for every id getPeers() of the service returns, the record's name,
\* address, port, specs and lastSeen are those of the most recent
\* advertisement received from that id, which the discovery registry holds.
C26_ServiceRecordRefreshed ==
    \A i \in 1..Len(svcGetPeers) :
        LET p == svcGetPeers[i]
        IN  HasPeer("B", p.id) =>
                /\ p.name = PeerOf("B", p.id).name
                /\ p.address = PeerOf("B", p.id).address
                /\ p.port = PeerOf("B", p.id).port
                /\ p.specs = PeerOf("B", p.id).specs
                /\ p.lastSeen = PeerOf("B", p.id).lastSeen

\* C27: while A's advertisements keep arriving (A runs, no packet is lost),
\* A, once recorded, stays in getPeers() of the service and is counted in
\* peersConnected, so that hybrid mode with the backend available routes to
\* the distributed path.
C27_LivePeerStaysVisible ==
    (isRunning["A"] /\ HasPeer("B", deviceId("A"))) =>
        /\ MapHas(svcPeers, deviceId("A"))
        /\ getStatus.peersConnected >= 1
        /\ (config.mode = "hybrid" /\ localAIAvailable) => getOptimalMode = "distributed"
\* The same while no heartbeat is set.
C27_LivePeerStaysVisibleWithoutHeartbeat ==
    svc.heartbeats = 0 => C27_LivePeerStaysVisible


\* --------------------------------------------------------------------------
\* The samples of one request
\* --------------------------------------------------------------------------
\* The peer ids of the samples a step appends
AppendedIds ==
    [i \in 1..(Len(recorded') - Len(recorded)) |-> recorded'[Len(recorded) + i].peerId]

\* C28: when a dispatch succeeded and its metrics fetch succeeds, one sample
\* is appended for each peer id of the request's peersInvolved, taken at
\* dispatch time, and for no other id.
C28_SamplesForSnapshot ==
    [][\A c \in Callers :
            (calls[c].data = "ok" /\ MetricsReturns(c, "ok")) =>
                AppendedIds = currentRequest.peersInvolved]_vars
\* The same for the peers known when the metrics fetch settles.
C28_SamplesForKnownPeers ==
    [][\A c \in Callers :
            (calls[c].data = "ok" /\ MetricsReturns(c, "ok")) =>
                AppendedIds = MapKeys(svcPeers)]_vars


C30_AtMostOneOfEach ==
    /\ svc.discoveries <= 1
    /\ svc.heartbeats <= 1
    /\ last.op = "dispose" => (svc.discoveries = 0 /\ svc.heartbeats = 0)

====
